---- MODULE Spec2Model ----
(***************************************************************************)
(* Model of owimetadatabase_preprocessor/geometry/processing.py: the       *)
(* single-turbine processor OWT and the fleet processor OWTs.              *)
(*                                                                         *)
(* Numbers.  Every quantity the code holds in metres (elevations, heights  *)
(* in m, diameters in m) is held here as an integer count of 1e-4 m, so    *)
(* that the code's "* 1e-3" (mm to m) is a multiplication by 10 and its    *)
(* rounding to 3 decimals is a real operation.  Raw database values (z,    *)
(* height, OD, wall_thickness in mm, mass in kg) are integers.  Quotients  *)
(* (Mass [t], rho [t/m], density) are exact fractions <<n, d>>.  A volume  *)
(* in m3 is held as a count of (pi/3) * 1e-12 m3, the unit in which the    *)
(* frustum formula of can_adjust_properties is an integer.  Binary         *)
(* floating-point error is not modelled.                                   *)
(*                                                                         *)
(* Tables.  A pandas DataFrame is [kind, cols, rows]: cols is the set of   *)
(* column labels and each row is a function on cols \cup {"index"}.  The   *)
(* index label of a row (the building block's title) is the set of tokens  *)
(* str.contains is asked about, with a sequence number.  A nullable cell   *)
(* is <<>> (None / NaN) or <<v>>.                                          *)
(***************************************************************************)
EXTENDS Integers, Sequences, FiniteSets, TLC

VARIABLES owts, fleet, last

vars == <<owts, fleet, last>>

-----------------------------------------------------------------------------
(* Bounds of the model.                                                    *)

\* Largest number of structural sections of a transition piece.
MaxTPSections == 2

\* Number of turbines of the fleet in the fleet specification.
NumTurbines == 2

-----------------------------------------------------------------------------
(* Arithmetic.                                                             *)

Abs(x) == IF x < 0 THEN -x ELSE x

RECURSIVE GCD(_, _)
GCD(a, b) == IF b = 0 THEN Abs(a) ELSE GCD(b, a % b)

\* The fraction n/d in lowest terms with a positive denominator; <<s, 0>>
\* stands for the float a division by zero leaves (inf, or nan when s = 0).
Rat(n, d) ==
    IF d = 0 THEN <<IF n > 0 THEN 1 ELSE IF n < 0 THEN -1 ELSE 0, 0>>
    ELSE LET g == GCD(Abs(n), Abs(d))
             s == IF d < 0 THEN -1 ELSE 1
         IN  <<s * (n \div g), s * (d \div g)>>

\* k * (n/d), cancelling before multiplying.
RatScale(k, q) ==
    IF q[2] = 0 THEN q
    ELSE LET g == GCD(Abs(k), q[2]) IN Rat((k \div g) * q[1], q[2] \div g)

\* (n/d) / k
RatDivInt(q, k) ==
    IF q[2] = 0 THEN q
    ELSE IF k = 0 THEN Rat(q[1], 0)
    ELSE LET g == GCD(Abs(q[1]), Abs(k)) IN Rat(q[1] \div g, q[2] * (k \div g))

RatAdd(p, q) ==
    IF p[2] = 0 THEN p ELSE IF q[2] = 0 THEN q
    ELSE LET g == GCD(p[2], q[2])
         IN  Rat(p[1] * (q[2] \div g) + q[1] * (p[2] \div g), (p[2] \div g) * q[2])

\* x mm (or kg) times 1e-3, as a count of 1e-4 m.
MmToM(x) == x * 10

\* round(x, 3) of a value in 1e-4 m: to the nearest multiple of 1e-3 m,
\* a tie to the even one.
Round3(x) ==
    LET r == x % 10
        lo == x - r
    IN  IF r < 5 THEN lo
        ELSE IF r > 5 THEN lo + 10
        ELSE IF (lo \div 10) % 2 = 0 THEN lo ELSE lo + 10

\* np.interp([x], [xp0, xp1], [fp0, fp1])[0] as numpy computes it for a
\* two-point table: numpy does not check that xp increases.  It first tests
\* x against the last and the first abscissa, then searches linearly.
np_interp(x, xp, fp) ==
    IF x > xp[2] THEN fp[2]
    ELSE IF x < xp[1] THEN fp[1]
    ELSE IF x >= xp[2] THEN fp[2]
    ELSE IF xp[1] = x THEN fp[1]
    ELSE fp[1] + ((fp[2] - fp[1]) * (x - xp[1])) \div (xp[2] - xp[1])

-----------------------------------------------------------------------------
(* Python values and pandas tables.                                        *)

None == [kind |-> "None"]

Float(v) == [kind |-> "float", val |-> v]

DataFrame(cols, rows) == [kind |-> "df", cols |-> cols, rows |-> rows]

IsNone(v) == v.kind = "None"

Range(s) == {s[i] : i \in DOMAIN s}

\* LET x == v IN Body(x), with v evaluated once however often Body uses x.
Bind(v, Body(_)) == CHOOSE y \in {Body(x) : x \in {v}} : TRUE

RECURSIVE Reverse(_)
Reverse(s) == IF s = <<>> THEN <<>> ELSE Append(Reverse(Tail(s)), Head(s))

RECURSIVE SumSeq(_)
SumSeq(s) == IF s = <<>> THEN 0 ELSE Head(s) + SumSeq(Tail(s))

RECURSIVE RatSumSeq(_)
RatSumSeq(s) == IF s = <<>> THEN <<0, 1>> ELSE RatAdd(Head(s), RatSumSeq(Tail(s)))

Column(df, c) == [i \in DOMAIN df.rows |-> df.rows[i][c]]

Restrict(row, cols) == [c \in cols \cup {"index"} |-> row[c]]

\* df[cols]: a KeyError when a label is not a column of df.
Project(df, cols) ==
    IF cols \subseteq df.cols
    THEN DataFrame(cols, [i \in DOMAIN df.rows |-> Restrict(df.rows[i], cols)])
    ELSE [kind |-> "KeyError"]

\* df["c"] = v on every row (v a function of the row).
Assign(df, c, V(_)) ==
    DataFrame(df.cols \cup {c},
              [i \in DOMAIN df.rows |-> (c :> V(df.rows[i])) @@ df.rows[i]])

\* df.rename(columns={old: new})
Rename(df, old, new) ==
    DataFrame((df.cols \ {old}) \cup {new},
              [i \in DOMAIN df.rows |->
                  [c \in ((df.cols \ {old}) \cup {new, "index"}) |->
                      IF c = new THEN df.rows[i][old] ELSE df.rows[i][c]]])

\* df[mask]
Filter(df, Test(_)) == DataFrame(df.cols, SelectSeq(df.rows, Test))

\* pd.concat([a, b]): the rows of a then those of b; a cell of a column the
\* other table lacks is NaN.
Fill(row, cols) ==
    [c \in cols \cup {"index"} |-> IF c \in DOMAIN row THEN row[c] ELSE <<>>]

concat2(a, b) ==
    LET cols == a.cols \cup b.cols
    IN  DataFrame(cols, [i \in DOMAIN a.rows |-> Fill(a.rows[i], cols)]
                        \o [i \in DOMAIN b.rows |-> Fill(b.rows[i], cols)])

RECURSIVE concat(_)
concat(dfs) ==
    IF Len(dfs) = 1 THEN dfs[1] ELSE concat2(dfs[1], concat(Tail(dfs)))

\* index.str.contains(idx) on one label.
contains(title, idx) == idx \in title.tokens

-----------------------------------------------------------------------------
(* Module constants.                                                       *)

ATTR_PROC ==
    <<"pile_toe", "rna", "tower", "transition_piece", "monopile",
      "tw_lumped_mass", "tp_lumped_mass", "mp_lumped_mass",
      "tp_distributed_mass", "mp_distributed_mass", "grout">>

ATTR_SPEC == <<"full_structure", "tp_skirt", "substructure">>

ATTR_FULL ==
    <<"all_tubular_structures", "all_distributed_mass", "all_lumped_mass",
      "all_turbines">>

-----------------------------------------------------------------------------
(* The tables a turbine is constructed from.  SubAssembly.as_df() is not   *)
(* part of processing.py: its result is an input here.  An input is        *)
(* described by                                                            *)
(*   tower_base, pile_head : the constructor's optional arguments,         *)
(*   ntp    : the number of structural sections of the transition piece,   *)
(*   order  : "desc" when the rows come top section first (z decreasing),  *)
(*            "asc" when they come bottom section first,                   *)
(*   zgap   : TRUE when the z of the top section of each subassembly is    *)
(*            1000 mm more than the heights of the sections below it.      *)
(***************************************************************************)

RAW_COLS ==
    {"OD", "height", "mass", "volume", "wall_thickness", "x", "y", "z",
     "description", "moment_of_inertia"}

Title(tokens, n) == [tokens |-> tokens, n |-> n]

\* A structural section (a can): OD is the "bottom/top" string split at "/".
Can(tag, n, od, h, z, wt) ==
    [index |-> Title({tag}, n), OD |-> od, height |-> <<h>>, mass |-> 2 * h,
     volume |-> 1000 * h, wall_thickness |-> wt, x |-> 0, y |-> 0, z |-> z,
     description |-> "", moment_of_inertia |-> None]

\* An appurtenance: h is <<>> for a lumped mass and <<height>> for a
\* distributed one.
Appurtenance(tokens, n, h, m, z, descr) ==
    [index |-> Title(tokens, n), OD |-> <<>>, height |-> h, mass |-> m,
     volume |-> IF h = <<>> THEN 0 ELSE 400, wall_thickness |-> 0,
     x |-> 100, y |-> -200, z |-> z, description |-> descr,
     moment_of_inertia |-> None]

Rna ==
    [index |-> Title({"RNA"}, 0), OD |-> <<>>, height |-> <<>>, mass |-> 300000,
     volume |-> 0, wall_thickness |-> 0, x |-> 0, y |-> 0, z |-> 72000,
     description |-> "rna",
     moment_of_inertia |-> [x |-> 1000, y |-> 2000, z |-> 3000]]

Ordered(inp, rows) == IF inp.order = "desc" THEN rows ELSE Reverse(rows)

Gap(inp) == IF inp.zgap THEN 1000 ELSE 0

\* Tower: two sections of 30 m over 40 m, the RNA, one lumped mass and one
\* distributed mass (a height of 2 m).
TowerTable(inp) ==
    DataFrame(RAW_COLS, Ordered(inp,
        << Rna,
           Appurtenance({"TW"}, 1, <<>>, 2000, 70000, "flange"),
           Appurtenance({"TW"}, 3, <<2000>>, 800, 30000, "cable"),
           Can("tw", 2, <<5000, 4000>>, 30000, 40000 + Gap(inp), 30),
           Can("tw", 1, <<6000, 5000>>, 40000, 0, 40) >>))

\* Transition piece: ntp equal conical sections, 21 m in all, bottom
\* section at z = 0; one lumped mass, one distributed mass and the grout.
TPHeight(inp) == 21000 \div inp.ntp

TPCan(inp, i) ==
    Can("tp", i, <<8, 6>>, TPHeight(inp),
        (i - 1) * TPHeight(inp) + (IF i = inp.ntp THEN Gap(inp) ELSE 0), 1)

TPTable(inp) ==
    DataFrame(RAW_COLS, Ordered(inp,
        << Appurtenance({"TP"}, 1, <<>>, 5000, 21000, "platform") >>
        \o [k \in 1..inp.ntp |-> TPCan(inp, inp.ntp + 1 - k)]
        \o << Appurtenance({"TP"}, 2, <<3000>>, 7000, 500, "ladder"),
              Appurtenance({"tp", "grout"}, 3, <<4000>>, 9000, 0, "grout") >>))

\* Monopile: sections of 5, 6 and 7 m from the top down, one lumped and
\* one distributed mass.
MPTable(inp) ==
    DataFrame(RAW_COLS, Ordered(inp,
        << Can("mp", 3, <<7000>>, 5000, 13000 + Gap(inp), 60),
           Appurtenance({"MP"}, 1, <<>>, 1500, 12000, "anode"),
           Can("mp", 2, <<7000>>, 6000, 7000, 70),
           Appurtenance({"MP"}, 2, <<2000>>, 2500, 3000, "cable"),
           Can("mp", 1, <<7500, 7000>>, 7000, 0, 80) >>))

\* The SubAssembly objects: only what processing.py reads of them.
SubAssemblies ==
    [TW |-> [absolute_bottom |-> 180000],
     TP |-> [absolute_bottom |-> -30000],
     MP |-> [absolute_top |-> -20004,
             position |-> [z |-> -38000],
             material |-> [title |-> "S355", density |-> 7850,
                           young_modulus |-> 210, poisson_ratio |-> 3]]]

Materials == << [title |-> "S355", density |-> 7850] >>

Input(tb, ph, n, order, zgap) ==
    [tower_base |-> tb, pile_head |-> ph, ntp |-> n, order |-> order, zgap |-> zgap]

\* Every shape of the tables, with the anchors derived (tower base 18 m, pile
\* head -2.0004 m, inside the bottom section of the transition piece) and
\* supplied as 20 m and -1 m (the bottom of the transition piece: a bolted
\* connection), 1.5 m (inside its bottom section) or 9.5 m.
GeometryInputs ==
    {Input(a[1], a[2], n, o, g) :
        a \in {<< <<>>, <<>> >>, << <<200000>>, <<-10000>> >>,
               << <<200000>>, <<15000>> >>, << <<200000>>, <<95000>> >>},
        n \in 1..MaxTPSections, o \in {"desc", "asc"}, g \in BOOLEAN}

\* Every way of supplying one anchor without the other, or 0.0, on one shape.
ArgumentInputs ==
    {Input(a[1], a[2], 1, "desc", FALSE) :
        a \in {<< <<>>, <<-10000>> >>, << <<200000>>, <<>> >>,
               << <<0>>, <<-10000>> >>, << <<200000>>, <<0>> >>}}

Inputs == GeometryInputs \cup ArgumentInputs

\* The inputs of the specifications with attribute reads and with a fleet:
\* a bolted connection and a cut one.
SmallInputs ==
    {Input(<<200000>>, ph, 1, "desc", FALSE) : ph \in {<<-10000>>, <<15000>>}}

-----------------------------------------------------------------------------
(* class OWT                                                               *)

\* bool(x) of an optional float argument: None and 0.0 are falsy.
Truthy(arg) == arg # <<>> /\ arg[1] # 0

\* OWT.__init__.  Two fields are history the code does not keep: args (the
\* constructor's arguments) and pile_toe_written (the call in progress has
\* assigned self.pile_toe).
OWT_init(inp) ==
    LET derive == ~Truthy(inp.tower_base) \/ ~Truthy(inp.pile_head)
    IN  [args |-> inp,
         pile_toe_written |-> FALSE,
         _init_proc |-> FALSE,
         _init_spec_part |-> FALSE,
         _init_spec_full |-> FALSE,
         materials |-> Materials,
         sub_assemblies |-> SubAssemblies,
         tower_sub_assemblies |-> TowerTable(inp),
         tp_sub_assemblies |-> TPTable(inp),
         mp_sub_assemblies |-> MPTable(inp),
         water_depth |-> 250000,
         tower_base |-> IF derive THEN SubAssemblies.TW.absolute_bottom
                        ELSE inp.tower_base[1],
         pile_head |-> IF derive THEN SubAssemblies.MP.absolute_top
                       ELSE inp.pile_head[1]]
        @@ [a \in Range(ATTR_PROC) \cup Range(ATTR_SPEC) |-> None]

\* What a method call leaves: the object, the returned value, the exception
\* raised ("none" when it returns) and the warnings emitted, each a pair
\* <<attribute read, processing call the message names>>.
Return(self, ret, w) == [self |-> self, ret |-> ret, exc |-> "none", warnings |-> w]

Raise(self, exc, w) == [self |-> self, ret |-> None, exc |-> exc, warnings |-> w]

\* OWT.__getattribute__: the warnings a read of self.<name> emits.
OWT_getattribute_warnings(self, name) ==
    IF name \in Range(ATTR_PROC) /\ ~self._init_proc
    THEN {<<name, "process_structure">>}
    ELSE IF name \in Range(ATTR_SPEC) /\ ~self._init_spec_part
    THEN {<<name, "assembly_tp_mp">>}
    ELSE IF name \in Range(ATTR_SPEC) /\ ~self._init_spec_full
    THEN {<<name, "assembly_full_structure">>}
    ELSE {}

\* OWT.__getattribute__: the warnings, then the attribute's current value.
OWT_getattribute(self, name) ==
    Return(self, self[name], OWT_getattribute_warnings(self, name))

STRUCT_COLS == {"OD", "height", "mass", "volume", "wall_thickness", "x", "y", "z"}

\* The rows of a subassembly table set_df_structure selects for idx.
structure_rows(self, idx) ==
    IF idx = "tw"
    THEN Filter(self.tower_sub_assemblies, LAMBDA r : contains(r["index"], idx))
    ELSE IF idx = "tp"
    THEN Filter(self.tp_sub_assemblies,
                LAMBDA r : contains(r["index"], idx) /\ ~contains(r["index"], "grout"))
    ELSE Filter(self.mp_sub_assemblies, LAMBDA r : contains(r["index"], idx))

heights_sum(df) == SumSeq([i \in DOMAIN df.rows |-> df.rows[i]["height"][1]])

\* The elevation z offsets are added to: tower_base, bottom_tp or toe.
structure_anchor(self, idx, df) ==
    IF idx = "tw" THEN self.tower_base
    ELSE IF idx = "tp" THEN self.tower_base - MmToM(heights_sum(df))
    ELSE self.pile_head - MmToM(heights_sum(df))

\* depth_to with the "* 1e-3" of df.z left out.
structure_depth_to_unconverted(anchor, r) == anchor + r["z"]

structure_depth_to(anchor, r) == anchor + MmToM(r["z"])

\* depth_from with the height subtracted.
structure_depth_from_below(anchor, r) ==
    structure_depth_to(anchor, r) - MmToM(r["height"][1])

structure_depth_from(anchor, r) == structure_depth_to(anchor, r) + MmToM(r["height"][1])

\* self.pile_toe = toe, the rounding left out.
set_pile_toe_unrounded(self, toe) ==
    [self EXCEPT !.pile_toe = Float(toe), !.pile_toe_written = TRUE]

\* self.pile_toe = round(toe, 3)
set_pile_toe(self, toe) ==
    [self EXCEPT !.pile_toe = Float(Round3(toe)), !.pile_toe_written = TRUE]

\* df["Depth from [mLAT]"], df["Depth to [mLAT]"] and the rounding of both.
with_depths(df, anchor) ==
    DataFrame(df.cols \cup {"Depth from [mLAT]", "Depth to [mLAT]"},
              [i \in DOMAIN df.rows |->
                  ("Depth from [mLAT]" :> Round3(structure_depth_from(anchor, df.rows[i])))
                  @@ ("Depth to [mLAT]" :> Round3(structure_depth_to(anchor, df.rows[i])))
                  @@ df.rows[i]])

\* OWT.set_df_structure
set_df_structure(self, idx) ==
    IF idx \notin {"tw", "tp", "mp"} THEN Raise(self, "ValueError", {})
    ELSE Bind(Project(structure_rows(self, idx), STRUCT_COLS), LAMBDA df :
         Bind(structure_anchor(self, idx, df), LAMBDA anchor :
            Return(IF idx = "mp" THEN set_pile_toe(self, anchor) ELSE self,
                   with_depths(df, anchor), {})))

GEOMETRY_COLS ==
    {"Depth from [mLAT]", "Depth to [mLAT]", "Height [m]", "Diameter from [m]",
     "Diameter to [m]", "Volume [m3]", "Wall thickness [mm]",
     "Youngs modulus [GPa]", "Poissons ratio [-]", "Mass [t]", "rho [t/m]"}

\* d.split("/", 1)[0] and [1] (or [0] when there is no "/") of an OD string.
od_to(od) == od[1]

od_from(od) == IF Len(od) > 1 THEN od[2] ELSE od[1]

geometry_row(r) ==
    [c \in GEOMETRY_COLS \cup {"index"} |->
        CASE c = "index" -> r["index"]
          [] c = "Depth from [mLAT]" -> r["Depth from [mLAT]"]
          [] c = "Depth to [mLAT]" -> r["Depth to [mLAT]"]
          [] c = "Height [m]" -> MmToM(r["height"][1])
          [] c = "Diameter from [m]" -> MmToM(od_from(r["OD"]))
          [] c = "Diameter to [m]" -> MmToM(od_to(r["OD"]))
          [] c = "Volume [m3]" -> r["volume"]
          [] c = "Wall thickness [mm]" -> r["wall_thickness"]
          [] c = "Youngs modulus [GPa]" -> 210
          [] c = "Poissons ratio [-]" -> Rat(3, 10)
          [] c = "Mass [t]" -> Rat(r["mass"], 1000)
          [] c = "rho [t/m]" -> Rat(r["mass"], r["height"][1])]

\* OWT.process_structure_geometry
process_structure_geometry(self, idx) ==
    Bind(set_df_structure(self, idx), LAMBDA r0 :
        IF r0.exc # "none" THEN r0
        ELSE Return(r0.self,
                    DataFrame(GEOMETRY_COLS,
                              [i \in DOMAIN r0.ret.rows |-> geometry_row(r0.ret.rows[i])]),
                    {}))

RNA_COLS ==
    {"X [m]", "Y [m]", "Z [mLAT]", "Mass [t]", "Ixx [tm2]", "Iyy [tm2]", "Izz [tm2]"}

rna_row(self, r) ==
    [c \in RNA_COLS \cup {"index"} |->
        CASE c = "index" -> r["index"]
          [] c = "X [m]" -> MmToM(r["x"])
          [] c = "Y [m]" -> MmToM(r["y"])
          [] c = "Z [mLAT]" -> self.tower_base + MmToM(r["z"])
          [] c = "Mass [t]" -> Rat(r["mass"], 1000)
          [] c = "Ixx [tm2]" -> Rat(r["moment_of_inertia"].x, 1000)
          [] c = "Iyy [tm2]" -> Rat(r["moment_of_inertia"].y, 1000)
          [] c = "Izz [tm2]" -> Rat(r["moment_of_inertia"].z, 1000)]

\* OWT.process_rna
process_rna(self) ==
    LET rna == Filter(self.tower_sub_assemblies, LAMBDA r : contains(r["index"], "RNA"))
    IN  Return([self EXCEPT !.rna =
                    DataFrame(RNA_COLS, [i \in DOMAIN rna.rows |-> rna_row(self, rna.rows[i])])],
               None, {})

\* The columns set_df_appurtenances takes from the subassembly table.
appurtenance_cols(add_descr) ==
    {"mass", "x", "y", "z"} \cup (IF add_descr THEN {"description"} ELSE {})

\* self.tower_base - self.tp_sub_assemblies.iloc[0]["z"] * 1e-3
tp_bottom(self) == self.tower_base - MmToM(self.tp_sub_assemblies.rows[1]["z"])

\* OWT.set_df_appurtenances
set_df_appurtenances(self, idx, add_descr) ==
    LET cols == appurtenance_cols(add_descr)
    IN  IF idx = "TW"
        THEN LET df == Project(Filter(self.tower_sub_assemblies,
                                      LAMBDA r : contains(r["index"], idx)), cols)
             IN  Return(self,
                        Assign(df, "Z [mLAT]", LAMBDA r : self.tower_base + MmToM(r["z"])),
                        {})
        ELSE IF idx = "TP"
        THEN LET df == Filter(Project(Filter(self.tp_sub_assemblies,
                                             LAMBDA r : contains(r["index"], idx)),
                                      cols \cup {"height"}),
                              LAMBDA r : r["height"] = <<>>)
             IN  IF self.tp_sub_assemblies.rows = <<>> THEN Raise(self, "IndexError", {})
                 ELSE Return(self,
                             Assign(df, "Z [mLAT]", LAMBDA r : tp_bottom(self) + MmToM(r["z"])),
                             {})
        ELSE IF idx = "MP"
        THEN LET df == Filter(Project(Filter(self.mp_sub_assemblies,
                                             LAMBDA r : contains(r["index"], idx)),
                                      cols \cup {"height"}),
                              LAMBDA r : r["height"] = <<>>)
                 w == OWT_getattribute_warnings(self, "pile_toe")
             IN  IF IsNone(self.pile_toe) THEN Raise(self, "TypeError", w)
                 ELSE Return(self,
                             Assign(df, "Z [mLAT]",
                                    LAMBDA r : self.pile_toe.val + MmToM(r["z"])),
                             w)
        ELSE Raise(self, "ValueError", {})

\* The columns process_lumped_masses returns.
lumped_cols(add_descr) ==
    {"X [m]", "Y [m]", "Z [mLAT]", "Mass [t]"}
        \cup (IF add_descr THEN {"Description"} ELSE {})

\* df["Mass [t]"], df["X [m]"] and df["Y [m]"] of the appurtenance tables.
with_mass_x_y(df) ==
    DataFrame(df.cols \cup {"Mass [t]", "X [m]", "Y [m]"},
              [i \in DOMAIN df.rows |->
                  ("Mass [t]" :> Rat(df.rows[i]["mass"], 1000))
                  @@ ("X [m]" :> MmToM(df.rows[i]["x"]))
                  @@ ("Y [m]" :> MmToM(df.rows[i]["y"]))
                  @@ df.rows[i]])

\* return df[cols]
return_columns(self, df, cols, w) ==
    IF cols \subseteq df.cols THEN Return(self, Project(df, cols), w)
    ELSE Raise(self, "KeyError", w)

\* OWT.process_lumped_masses
process_lumped_masses(self, idx, add_descr) ==
    Bind(set_df_appurtenances(self, idx, add_descr), LAMBDA r0 :
        IF r0.exc # "none" THEN r0
        ELSE Bind(with_mass_x_y(r0.ret), LAMBDA df :
                return_columns(self, df, lumped_cols(add_descr), r0.warnings)))

DISTRIBUTED_RAW_COLS == {"mass", "x", "y", "z", "height", "volume", "description"}

DISTRIBUTED_COLS ==
    {"X [m]", "Y [m]", "Z [mLAT]", "Height [m]", "Mass [t]", "Volume [m3]",
     "description"}

\* OWT.set_df_distributed_appurtenances
set_df_distributed_appurtenances(self, idx) ==
    IF idx \in {"TP", "grout"}
    THEN LET df == Filter(Project(Filter(self.tp_sub_assemblies,
                                         LAMBDA r : contains(r["index"], idx)),
                                  DISTRIBUTED_RAW_COLS),
                          LAMBDA r : r["height"] # <<>>)
         IN  IF self.tp_sub_assemblies.rows = <<>> THEN Raise(self, "IndexError", {})
             ELSE Return(self,
                         Assign(df, "Z [mLAT]", LAMBDA r : tp_bottom(self) + MmToM(r["z"])),
                         {})
    ELSE IF idx = "MP"
    THEN LET df == Filter(Project(Filter(self.mp_sub_assemblies,
                                         LAMBDA r : contains(r["index"], idx)),
                                  DISTRIBUTED_RAW_COLS),
                          LAMBDA r : r["height"] # <<>>)
             w == OWT_getattribute_warnings(self, "pile_toe")
         IN  IF IsNone(self.pile_toe) THEN Raise(self, "TypeError", w)
             ELSE Return(self,
                         Assign(df, "Z [mLAT]",
                                LAMBDA r : self.pile_toe.val + MmToM(r["z"])),
                         w)
    ELSE Raise(self, "ValueError", {})

\* OWT.process_distributed_lumped_masses
process_distributed_lumped_masses(self, idx) ==
    Bind(set_df_distributed_appurtenances(self, idx), LAMBDA r0 :
        IF r0.exc # "none" THEN r0
        ELSE Bind(Rename(Assign(with_mass_x_y(r0.ret), "Height [m]",
                                LAMBDA r : MmToM(r["height"][1])),
                         "volume", "Volume [m3]"),
                  LAMBDA df : return_columns(self, df, DISTRIBUTED_COLS, r0.warnings)))

\* The statements of process_structure for an option, in order: the
\* attribute assigned and the call whose result it is given ("rna" is
\* assigned by process_rna itself).
PROCESS_STEPS(option) ==
    IF option = "full"
    THEN <<"rna", "tower", "transition_piece", "monopile", "tw_lumped_mass",
           "tp_lumped_mass", "mp_lumped_mass", "tp_distributed_mass",
           "mp_distributed_mass", "grout">>
    ELSE IF option = "tower" THEN <<"rna", "tower", "tw_lumped_mass">>
    ELSE IF option = "TP"
    THEN <<"transition_piece", "tp_lumped_mass", "tp_distributed_mass", "grout">>
    ELSE IF option = "monopile"
    THEN <<"monopile", "mp_lumped_mass", "mp_distributed_mass">>
    ELSE <<>>

\* The call on the right-hand side of "self.<attr> = ...".
process_call(self, attr) ==
    CASE attr = "rna" -> process_rna(self)
      [] attr = "tower" -> process_structure_geometry(self, "tw")
      [] attr = "transition_piece" -> process_structure_geometry(self, "tp")
      [] attr = "monopile" -> process_structure_geometry(self, "mp")
      [] attr = "tw_lumped_mass" -> process_lumped_masses(self, "TW", FALSE)
      [] attr = "tp_lumped_mass" -> process_lumped_masses(self, "TP", FALSE)
      [] attr = "mp_lumped_mass" -> process_lumped_masses(self, "MP", FALSE)
      [] attr = "tp_distributed_mass" -> process_distributed_lumped_masses(self, "TP")
      [] attr = "mp_distributed_mass" -> process_distributed_lumped_masses(self, "MP")
      [] attr = "grout" -> process_distributed_lumped_masses(self, "grout")

\* One statement: an exception of the call ends the method and leaves what
\* was assigned before it.
assign_step(acc, attr) ==
    Bind(process_call(acc.self, attr), LAMBDA r :
        IF r.exc # "none" THEN Raise(r.self, r.exc, acc.warnings \cup r.warnings)
        ELSE Return(IF attr = "rna" THEN r.self ELSE [r.self EXCEPT ![attr] = r.ret],
                    None, acc.warnings \cup r.warnings))

RECURSIVE assign_steps(_, _)
assign_steps(acc, attrs) ==
    IF attrs = <<>> \/ acc.exc # "none" THEN acc
    ELSE Bind(assign_step(acc, Head(attrs)), LAMBDA a : assign_steps(a, Tail(attrs)))

\* self._init_proc = True, the first statement of process_structure.
mark_init_proc(self) == [self EXCEPT !._init_proc = TRUE]

\* OWT.process_structure
process_structure(self, option) ==
    Bind(Return(mark_init_proc(self), None, {}), LAMBDA a0 :
        assign_steps(a0, PROCESS_STEPS(option)))

\* (r1**2 + r1*r2 + r2**2) with r = d / 2, times 4.
frustum_term(d1, d2) == d1 * d1 + d1 * d2 + d2 * d2

\* OWT.can_adjust_properties: the four recalculated cells of a can.
can_adjust_properties(row) ==
    LET density == RatDivInt(row["Mass [t]"], row["Volume [m3]"])
        height == row["Depth from [mLAT]"] - row["Depth to [mLAT]"]
        d1 == row["Diameter from [m]"]
        d2 == row["Diameter to [m]"]
        wall_thickness == MmToM(row["Wall thickness [mm]"])
        volume_out == frustum_term(d1, d2)
        volume_in == frustum_term(d1 - 2 * wall_thickness, d2 - 2 * wall_thickness)
        volume == ((volume_out - volume_in) \div 4) * height
        mass == RatScale(volume, density)
    IN  [height |-> height, volume |-> volume, mass |-> mass,
         rho_m |-> RatDivInt(mass, height)]

\* The diameter can_modification writes at the cut: np.interp over the
\* row's elevations read after the altitude has been written into the row.
cut_diameter(row, altitude) ==
    np_interp(altitude,
              <<row["Depth from [mLAT]"], row["Depth to [mLAT]"]>>,
              <<row["Diameter from [m]"], row["Diameter to [m]"]>>)

\* The row can_modification changes: the last one for "bottom", else the first.
can_index(df, position) == IF position = "bottom" THEN Len(df.rows) ELSE 1

\* df.loc[df.index[ind], cols] = self.can_adjust_properties(df.iloc[ind])
with_adjusted_properties(row) ==
    Bind(can_adjust_properties(row), LAMBDA p :
        ("Height [m]" :> p.height) @@ ("Volume [m3]" :> p.volume)
            @@ ("Mass [t]" :> p.mass) @@ ("rho [t/m]" :> p.rho_m) @@ row)

\* The changed row: the altitude, then the diameter, then the properties.
modified_can(row, altitude, position) ==
    LET depth_col == IF position = "bottom" THEN "Depth to [mLAT]" ELSE "Depth from [mLAT]"
        diam_col == IF position = "bottom" THEN "Diameter to [m]" ELSE "Diameter from [m]"
    IN  Bind((depth_col :> altitude) @@ row, LAMBDA row1 :
        Bind((diam_col :> cut_diameter(row1, altitude)) @@ row1, LAMBDA row2 :
            with_adjusted_properties(row2)))

\* OWT.can_modification
can_modification(df, altitude, position) ==
    IF df.rows = <<>> THEN [kind |-> "IndexError"]
    ELSE DataFrame(df.cols,
                   [df.rows EXCEPT ![can_index(df, position)] =
                       modified_can(@, altitude, position)])

\* The row whose "Depth to" assembly_tp_mp compares with the pile head.
bolted_check_index(df) == 1

\* The part of the transition piece kept above the pile head.
tp_above(tp, mp_head) ==
    Bind(Filter(tp, LAMBDA r : r["Depth from [mLAT]"] > mp_head), LAMBDA df :
        IF df.rows = <<>> THEN [kind |-> "IndexError"]
        ELSE IF df.rows[bolted_check_index(df)]["Depth to [mLAT]"] # mp_head
        THEN can_modification(df, mp_head, "bottom")
        ELSE df)

\* The skirt: the part of the transition piece below the pile head.
tp_below(tp, mp_head) ==
    Bind(Filter(tp, LAMBDA r : r["Depth to [mLAT]"] < mp_head), LAMBDA df :
        can_modification(df, mp_head, "top"))

\* assemble_tp_mp with the selection a view of the transition piece in place
\* of a deepcopy: the cut of can_modification lands in self.transition_piece.
assemble_tp_mp_in_place(s1, w) ==
    Bind(tp_above(s1.transition_piece, s1.pile_head), LAMBDA tp1 :
        IF tp1.kind = "IndexError" THEN Raise(s1, "IndexError", w)
        ELSE Bind([s1 EXCEPT
                     !.substructure = concat2(tp1, s1.monopile),
                     !.transition_piece =
                         DataFrame(@.cols,
                             [j \in DOMAIN @.rows |->
                                 IF \E q \in Range(tp1.rows) : q["index"] = @.rows[j]["index"]
                                 THEN CHOOSE q \in Range(tp1.rows) :
                                          q["index"] = @.rows[j]["index"]
                                 ELSE @.rows[j]])], LAMBDA s2 :
             Bind(tp_below(s1.transition_piece, s1.pile_head), LAMBDA skirt :
                IF skirt.kind = "IndexError" THEN Raise(s2, "IndexError", w)
                ELSE Return([s2 EXCEPT !.tp_skirt = skirt], None, w))))

\* The body of assembly_tp_mp once both tables are there.
assemble_tp_mp(s1, w) ==
    Bind(tp_above(s1.transition_piece, s1.pile_head), LAMBDA tp1 :
        IF tp1.kind = "IndexError" THEN Raise(s1, "IndexError", w)
        ELSE Bind([s1 EXCEPT !.substructure = concat2(tp1, s1.monopile)], LAMBDA s2 :
             Bind(tp_below(s1.transition_piece, s1.pile_head), LAMBDA skirt :
                IF skirt.kind = "IndexError" THEN Raise(s2, "IndexError", w)
                ELSE Return([s2 EXCEPT !.tp_skirt = skirt], None, w))))

\* The else branch with the raise replaced by a silent return.
precedence_ignored(self, w) == Return(self, None, w)

\* raise TypeError("... need to be processed before!")
precedence_error(self, w) == Raise(self, "TypeError", w)

\* OWT.assembly_tp_mp
assembly_tp_mp(self) ==
    Bind([self EXCEPT !._init_spec_part = TRUE], LAMBDA s1 :
        IF IsNone(s1.transition_piece)
        THEN precedence_error(s1, OWT_getattribute_warnings(s1, "transition_piece"))
        ELSE IF IsNone(s1.monopile)
        THEN precedence_error(s1,
                   OWT_getattribute_warnings(s1, "transition_piece")
                       \cup OWT_getattribute_warnings(s1, "monopile"))
        ELSE assemble_tp_mp(s1, OWT_getattribute_warnings(s1, "transition_piece")
                                    \cup OWT_getattribute_warnings(s1, "monopile")))

\* OWT.assembly_full_structure
assembly_full_structure(self) ==
    Bind([self EXCEPT !._init_spec_full = TRUE], LAMBDA s1 :
        IF IsNone(s1.substructure)
        THEN precedence_error(s1, OWT_getattribute_warnings(s1, "substructure"))
        ELSE IF IsNone(s1.tower)
        THEN precedence_error(s1,
                   OWT_getattribute_warnings(s1, "substructure")
                       \cup OWT_getattribute_warnings(s1, "tower"))
        ELSE Return([s1 EXCEPT !.full_structure = concat2(s1.tower, s1.substructure)],
                    None,
                    OWT_getattribute_warnings(s1, "substructure")
                        \cup OWT_getattribute_warnings(s1, "tower")))

\* self.<attr>["Subassembly"] = sa, on the table the attribute holds.
subassembly_step(acc, attr, sa) ==
    LET w == acc.warnings \cup OWT_getattribute_warnings(acc.self, attr)
    IN  IF IsNone(acc.self[attr]) THEN Raise(acc.self, "TypeError", w)
        ELSE Return([acc.self EXCEPT ![attr] =
                         Assign(acc.self[attr], "Subassembly", LAMBDA r : sa)],
                    None, w)

\* A call whose result is not kept.
call_result(acc, r) ==
    [self |-> r.self, ret |-> None, exc |-> r.exc,
     warnings |-> acc.warnings \cup r.warnings]

\* The statements of extend_dfs, in order.
EXTEND_STEPS ==
    << <<"describe", "TW">>, <<"describe", "TP">>, <<"describe", "MP">>,
       <<"tower", "TW">>, <<"transition_piece", "TP">>, <<"monopile", "MP">>,
       <<"tw_lumped_mass", "TW">>, <<"tp_lumped_mass", "TP">>,
       <<"mp_lumped_mass", "MP">>, <<"tp_distributed_mass", "TP">>,
       <<"mp_distributed_mass", "MP">>, <<"grout", "TP">>, <<"rna", "TW">>,
       <<"assembly_tp_mp", "">>, <<"assembly_full_structure", "">> >>

extend_step(acc, step) ==
    CASE step[1] = "describe" ->
            Bind(process_lumped_masses(acc.self, step[2], TRUE),
                 LAMBDA r : call_result(acc, r))
      [] step[1] = "assembly_tp_mp" ->
            Bind(assembly_tp_mp(acc.self), LAMBDA r : call_result(acc, r))
      [] step[1] = "assembly_full_structure" ->
            Bind(assembly_full_structure(acc.self), LAMBDA r : call_result(acc, r))
      [] OTHER -> subassembly_step(acc, step[1], step[2])

RECURSIVE extend_steps(_, _)
extend_steps(acc, steps) ==
    IF steps = <<>> \/ acc.exc # "none" THEN acc
    ELSE Bind(extend_step(acc, Head(steps)), LAMBDA a : extend_steps(a, Tail(steps)))

\* OWT.extend_dfs
extend_dfs(self) ==
    Bind(Return(self, None, {}), LAMBDA a0 : extend_steps(a0, EXTEND_STEPS))

\* A cell pandas leaves unset.
NaN == [kind |-> "nan"]

PILE_COLS ==
    {"Depth from [m]", "Depth to [m]", "Pile material",
     "Pile material submerged unit weight [kN/m3]", "Wall thickness [mm]",
     "Diameter [m]", "Youngs modulus [GPa]", "Poissons ratio [-]"}

\* -((1e-3 * toe_depth_lat) - self.water_depth)
penetration(self) == self.water_depth - MmToM(self.sub_assemblies.MP.position.z)

\* The row pile.loc[i, ...] of the loop for the raw row at position k (1
\* based; i = k - 1 is its label after reset_index).
pile_row(self, df, k) ==
    [c \in PILE_COLS \cup {"index"} |->
        CASE c = "index" -> k - 1
          [] c = "Depth from [m]" -> penetration(self) - MmToM(df.rows[k - 1]["z"])
          [] c = "Depth to [m]" -> penetration(self) - MmToM(df.rows[k]["z"])
          [] c = "Pile material" -> self.sub_assemblies.MP.material.title
          [] c = "Pile material submerged unit weight [kN/m3]" ->
                Rat(self.sub_assemblies.MP.material.density - 1000, 100)
          [] c = "Wall thickness [mm]" -> df.rows[k]["wall_thickness"]
          [] c = "Diameter [m]" ->
                5 * (od_to(df.rows[k]["OD"]) + od_from(df.rows[k]["OD"]))
          [] c = "Youngs modulus [GPa]" -> self.sub_assemblies.MP.material.young_modulus
          [] c = "Poissons ratio [-]" -> self.sub_assemblies.MP.material.poisson_ratio]

\* pile after the loop: no row for the first raw row, and no column at all
\* when the loop assigned nothing.
pile_table(self, df) ==
    DataFrame(IF Len(df.rows) <= 1 THEN {} ELSE PILE_COLS,
              [j \in 1..(Len(df.rows) - 1) |-> pile_row(self, df, j + 1)])

\* reset_index(drop=True)
reset_index(df) ==
    DataFrame(df.cols, [j \in DOMAIN df.rows |-> [df.rows[j] EXCEPT !["index"] = j - 1]])

\* pile.loc[0, "Depth from [m]"] = cutoff_point: the row labelled 0 is the
\* first one, and is added with every other cell unset when there is none.
pin_depth_from(pile, cutoff_point) ==
    IF pile.rows = <<>>
    THEN DataFrame(pile.cols,
                   << [c \in pile.cols \cup {"index"} |->
                         IF c = "index" THEN 0
                         ELSE IF c = "Depth from [m]" THEN cutoff_point ELSE NaN] >>)
    ELSE DataFrame(pile.cols,
                   [pile.rows EXCEPT ![1]["Depth from [m]"] = cutoff_point])

\* Lines 494-496: the rows below the cutoff, the first one pinned to it.
cut_off(pile, cutoff_point) ==
    pin_depth_from(
        reset_index(Filter(pile, LAMBDA r : r["Depth to [m]"] > cutoff_point)),
        cutoff_point)

\* OWT.transform_monopile_geometry: cutoff_point is <<>> for nan.  "/" in
\* row["OD"] raises TypeError on a row without an OD.
transform_monopile_geometry(self, cutoff_point) ==
    IF \E k \in 2..Len(self.mp_sub_assemblies.rows) :
          self.mp_sub_assemblies.rows[k]["OD"] = <<>>
    THEN Raise(self, "TypeError", {})
    ELSE Bind(pile_table(self, self.mp_sub_assemblies), LAMBDA pile :
            IF cutoff_point = <<>> THEN Return(self, pile, {})
            ELSE IF pile.cols = {} THEN Raise(self, "KeyError", {})
            ELSE Return(self, cut_off(pile, cutoff_point[1]), {}))

-----------------------------------------------------------------------------
(* class OWTs                                                              *)

List(items) == [kind |-> "list", items |-> items]

Dict(map) == [kind |-> "dict", map |-> map]

FLEET_ATTRS == Range(ATTR_PROC) \cup Range(ATTR_SPEC) \cup Range(ATTR_FULL)

\* OWTs.__init__ over the turbines os (a sequence, in the order given).
OWTs_init(os) ==
    [_init |-> FALSE,
     materials |-> os[1].materials,
     sub_assemblies |-> Dict([t \in DOMAIN os |-> os[t].sub_assemblies]),
     tower_base |-> Dict([t \in DOMAIN os |-> os[t].tower_base]),
     pile_head |-> Dict([t \in DOMAIN os |-> os[t].pile_head]),
     water_depth |-> Dict([t \in DOMAIN os |-> os[t].water_depth]),
     tower_sub_assemblies |-> concat([t \in DOMAIN os |-> os[t].tower_sub_assemblies]),
     tp_sub_assemblies |-> concat([t \in DOMAIN os |-> os[t].tp_sub_assemblies]),
     mp_sub_assemblies |-> concat([t \in DOMAIN os |-> os[t].mp_sub_assemblies])]
    @@ [a \in FLEET_ATTRS |-> List(<<>>)]

\* OWTs.__getattribute__: the warnings a read of self.<name> emits.
OWTs_getattribute_warnings(self, name) ==
    IF name \in FLEET_ATTRS /\ ~self._init
    THEN {<<name, "process_structures">>}
    ELSE {}

\* list.append / list.extend on the list self.<attr> holds.
extend(self, attr, items) ==
    [self EXCEPT ![attr] = List(self[attr].items \o items)]

LUMPED_COLS == {"X [m]", "Y [m]", "Z [mLAT]", "Mass [t]"}

\* The body of "for attr in attr_list" for one turbine: attr_list is
\* ATTR_PROC + ATTR_SPEC + ATTR_FULL without "all_turbines".
collect(self, owt) ==
    LET plain == (Range(ATTR_PROC) \cup Range(ATTR_SPEC)) \ {"pile_toe"}
        s1 == extend(self, "pile_toe", <<owt.pile_toe>>)
        s2 == [a \in DOMAIN s1 |->
                  IF a \in plain THEN List(s1[a].items \o <<owt[a]>>) ELSE s1[a]]
        s3 == extend(s2, "all_tubular_structures",
                     <<owt.tower, owt.transition_piece, owt.monopile>>)
        s4 == extend(s3, "all_distributed_mass",
                     <<owt.tp_distributed_mass, owt.grout, owt.mp_distributed_mass>>)
    IN  extend(s4, "all_lumped_mass",
               <<Project(owt.rna, LUMPED_COLS), owt.tw_lumped_mass,
                 owt.tp_lumped_mass, owt.mp_lumped_mass>>)

\* "for owt in self.owts.values()" from turbine t on: st is [self, owts, exc].
\* owt.process_structure(); owt.extend_dfs()
process_and_extend(owt) ==
    Bind(process_structure(owt, "full"), LAMBDA r1 :
        IF r1.exc # "none" THEN r1 ELSE extend_dfs(r1.self))

RECURSIVE process_each(_, _)
process_each(st, t) ==
    IF t > Len(st.owts) \/ st.exc # "none" THEN st
    ELSE Bind(process_and_extend(st.owts[t]), LAMBDA r :
            IF r.exc # "none"
            THEN [self |-> st.self, owts |-> [st.owts EXCEPT ![t] = r.self],
                  exc |-> r.exc]
            ELSE Bind([self |-> collect(st.self, r.self),
                       owts |-> [st.owts EXCEPT ![t] = r.self], exc |-> "none"],
                      LAMBDA st1 : process_each(st1, t + 1)))

\* OWTs._concat_list
concat_list(self, attrs) ==
    [a \in DOMAIN self |-> IF a \in attrs THEN concat(self[a].items) ELSE self[a]]

column_sum(df, c) == SumSeq(Column(df, c))

column_rat_sum(df, c) == RatSumSeq(Column(df, c))

\* round(2) of a fraction, as a fraction of hundredths.
RatRound2(q) ==
    LET n == q[1] * 100
        fl == n \div q[2]
        twice == 2 * (n - fl * q[2])
    IN  Rat(IF twice < q[2] THEN fl
            ELSE IF twice > q[2] THEN fl + 1
            ELSE IF fl % 2 = 0 THEN fl ELSE fl + 1, 100)

\* round(2) of a value in 1e-4 m.
Round2(x) == 100 * RatRound2(<<x, 100>>)[1]

TURBINE_COLS ==
    {"Turbine name", "Water depth [m]", "Monopile toe [m]", "Monopile head [m]",
     "Tower base [m]", "Monopile height [m]", "Monopile mass [t]",
     "Transition piece height [m]", "Transition piece mass [t]",
     "Tower height [m]", "Tower mass [t]"}

turbine_row(self, owts_, t) ==
    LET o == owts_[t]
    IN  [c \in TURBINE_COLS \cup {"index"} |->
        CASE c = "index" -> t
          [] c = "Turbine name" -> t
          [] c = "Water depth [m]" -> Round2(self.water_depth.map[t])
          [] c = "Monopile toe [m]" -> Round2(self.pile_toe.map[t].val)
          [] c = "Monopile head [m]" -> Round2(self.pile_head.map[t])
          [] c = "Tower base [m]" -> Round2(self.tower_base.map[t])
          [] c = "Monopile height [m]" -> Round2(column_sum(o.monopile, "Height [m]"))
          [] c = "Monopile mass [t]" ->
                RatRound2(RatAdd(column_rat_sum(o.monopile, "Mass [t]"),
                          RatAdd(column_rat_sum(o.mp_distributed_mass, "Mass [t]"),
                                 column_rat_sum(o.mp_lumped_mass, "Mass [t]"))))
          [] c = "Transition piece height [m]" ->
                Round2(column_sum(o.transition_piece, "Height [m]"))
          [] c = "Transition piece mass [t]" ->
                RatRound2(RatAdd(column_rat_sum(o.transition_piece, "Mass [t]"),
                          RatAdd(column_rat_sum(o.tp_distributed_mass, "Mass [t]"),
                          RatAdd(column_rat_sum(o.tp_lumped_mass, "Mass [t]"),
                                 column_rat_sum(o.grout, "Mass [t]")))))
          [] c = "Tower height [m]" -> Round2(column_sum(o.tower, "Height [m]"))
          [] c = "Tower mass [t]" ->
                RatRound2(RatAdd(column_rat_sum(o.tower, "Mass [t]"),
                          RatAdd(column_rat_sum(o.tw_lumped_mass, "Mass [t]"),
                                 column_rat_sum(o.rna, "Mass [t]"))))]

\* OWTs.assembly_turbine
assembly_turbine(self, owts_) ==
    [self EXCEPT !.all_turbines =
        DataFrame(TURBINE_COLS, [t \in DOMAIN owts_ |-> turbine_row(self, owts_, t)])]

\* What follows the loop over the turbines: the pile_toe dictionary, the
\* concatenations and the summary table.
finish_structures(self, owts_) ==
    Bind([self EXCEPT !.pile_toe = Dict([t \in DOMAIN owts_ |-> self.pile_toe.items[t]])],
         LAMBDA s1 :
    Bind(concat_list(s1, FLEET_ATTRS \ {"pile_toe", "all_turbines"}), LAMBDA s2 :
        assembly_turbine(s2, owts_)))

\* OWTs.process_structures: [self, owts, exc] after the call.
process_structures(self, owts_) ==
    IF self._init THEN [self |-> self, owts |-> owts_, exc |-> "none"]
    ELSE Bind(process_each([self |-> [self EXCEPT !._init = TRUE],
                            owts |-> owts_, exc |-> "none"], 1),
              LAMBDA st :
                IF st.exc # "none" THEN st
                ELSE [self |-> finish_structures(st.self, st.owts), owts |-> st.owts,
                      exc |-> "none"])

-----------------------------------------------------------------------------
(* The state machine: owts holds the turbine processors in the order the   *)
(* fleet was given them, fleet the OWTs object built over them, and last   *)
(* what the most recent call did.                                          *)

OPTIONS == {"full", "tower", "TP", "monopile", "other"}

READABLE == Range(ATTR_PROC) \cup Range(ATTR_SPEC)

Outcome(op, t, arg, r) ==
    [op |-> op, t |-> t, arg |-> arg, exc |-> r.exc, warnings |-> r.warnings,
     ret |-> r.ret]

\* A call starts with no assignment of pile_toe made.
enter(self) == [self EXCEPT !.pile_toe_written = FALSE]

OwtCall(t, op, arg, r) ==
    /\ owts' = [owts EXCEPT ![t] = r.self]
    /\ last' = Outcome(op, t, arg, r)
    /\ UNCHANGED fleet

ProcessStructure(t, option) ==
    \E r \in {process_structure(enter(owts[t]), option)} :
        OwtCall(t, "process_structure", option, r)

AssemblyTpMp(t) ==
    \E r \in {assembly_tp_mp(enter(owts[t]))} : OwtCall(t, "assembly_tp_mp", "", r)

AssemblyFullStructure(t) ==
    \E r \in {assembly_full_structure(enter(owts[t]))} :
        OwtCall(t, "assembly_full_structure", "", r)

ExtendDfs(t) ==
    \E r \in {extend_dfs(enter(owts[t]))} : OwtCall(t, "extend_dfs", "", r)

ReadOwt(t, name) ==
    \E r \in {OWT_getattribute(enter(owts[t]), name)} : OwtCall(t, "getattr", name, r)

ProcessStructures ==
    \E st \in {process_structures(fleet, [t \in DOMAIN owts |-> enter(owts[t])])} :
        /\ owts' = st.owts
        /\ fleet' = st.self
        /\ last' = [op |-> "process_structures", t |-> 0, arg |-> "",
                    exc |-> st.exc, warnings |-> {}, ret |-> None]

ReadFleet(name) ==
    /\ last' = [op |-> "fleet_getattr", t |-> 0, arg |-> name, exc |-> "none",
                warnings |-> OWTs_getattribute_warnings(fleet, name),
                ret |-> fleet[name]]
    /\ owts' = [t \in DOMAIN owts |-> enter(owts[t])]
    /\ UNCHANGED fleet

NoCall == [op |-> "init", t |-> 0, arg |-> "", exc |-> "none", warnings |-> {},
           ret |-> None]

InitWith(os) ==
    /\ owts = os
    /\ fleet = OWTs_init(owts)
    /\ last = NoCall

Init == \E inp \in Inputs : InitWith(<<OWT_init(inp)>>)

\* The processing calls on one turbine, and the fleet's.
Next ==
    \/ \E t \in DOMAIN owts, option \in OPTIONS : ProcessStructure(t, option)
    \/ \E t \in DOMAIN owts : AssemblyTpMp(t)
    \/ \E t \in DOMAIN owts : AssemblyFullStructure(t)
    \/ \E t \in DOMAIN owts : ExtendDfs(t)
    \/ ProcessStructures

Spec == Init /\ [][Next]_vars

\* The same with reads of the derived attributes between the calls.
InitRead == \E inp \in SmallInputs : InitWith(<<OWT_init(inp)>>)

NextRead ==
    \/ Next
    \/ \E t \in DOMAIN owts, name \in READABLE : ReadOwt(t, name)
    \/ \E name \in FLEET_ATTRS : ReadFleet(name)

SpecRead == InitRead /\ [][NextRead]_vars

\* A fleet of NumTurbines turbines: full processing of one turbine, the
\* fleet's processing and reads of the fleet's attributes.
InitFleet ==
    \E os \in [1..NumTurbines -> {OWT_init(inp) : inp \in SmallInputs}] : InitWith(os)

NextFleet ==
    \/ \E t \in DOMAIN owts : ProcessStructure(t, "full")
    \/ ProcessStructures
    \/ \E name \in FLEET_ATTRS : ReadFleet(name)

SpecFleet == InitFleet /\ [][NextFleet]_vars


-----------------------------------------------------------------------------
(* Properties of the read guards and of the order of the stages.           *)

\* The processing calls that populate owt.<name> and have not been run on
\* owt: a table of process_structure is None until the option that builds it
\* has run, and each assembly sets its flag on entry.
MissingCalls(owt, name) ==
    IF name \in Range(ATTR_PROC)
    THEN IF IsNone(owt[name]) THEN {"process_structure"} ELSE {}
    ELSE (IF owt._init_spec_part THEN {} ELSE {"assembly_tp_mp"})
         \cup (IF name = "full_structure" /\ ~owt._init_spec_full
               THEN {"assembly_full_structure"} ELSE {})

\* C1: a read of a derived attribute before the call that populates it has
\* been run does not raise, returns the attribute's current value and emits
\* a warning naming a missing call, on a turbine after any sequence of other
\* calls and on a fleet.
C1_ReadBeforeProcessingWarns ==
    /\ (last.op = "getattr" /\ MissingCalls(owts[last.t], last.arg) # {})
          => /\ last.exc = "none"
             /\ last.ret = owts[last.t][last.arg]
             /\ \E w \in last.warnings :
                   w[1] = last.arg /\ w[2] \in MissingCalls(owts[last.t], last.arg)
    /\ (last.op = "fleet_getattr" /\ ~fleet._init)
          => /\ last.exc = "none"
             /\ last.ret = fleet[last.arg]
             /\ <<last.arg, "process_structures">> \in last.warnings

\* C1: the monopile table read after process_structure has built other
\* tables only: None is returned and no warning is emitted.
C1_SilentReadOfUnprocessed ==
    /\ last.op = "getattr" /\ last.arg = "monopile"
    /\ IsNone(last.ret) /\ ~IsNone(owts[last.t].tower)
    /\ last.warnings = {}

\* process_structure(option) has built everything it builds.
Completed(owt, option) ==
    /\ option \in {"full", "tower", "TP", "monopile"}
    /\ \A a \in Range(PROCESS_STEPS(option)) : ~IsNone(owt[a])

\* C2: a process_structure(option) on a turbine where that processing has
\* completed leaves every derived table as it was and does not write
\* pile_toe again; a process_structures on a fleet that has run it leaves
\* the fleet as it was.
C2_RepeatedCallIsNoOp ==
    [][/\ (last'.op = "process_structure" /\ Completed(owts[last'.t], last'.arg))
             => /\ \A a \in READABLE : owts'[last'.t][a] = owts[last'.t][a]
                /\ ~owts'[last'.t].pile_toe_written
       /\ (last'.op = "process_structures" /\ fleet._init) => fleet' = fleet]_vars

\* C2: a process_structure has just returned on a turbine whose tables the
\* option builds were all there before, and has assigned pile_toe.
C2_PileToeWrittenAgain ==
    /\ last.op = "process_structure" /\ last.arg = "monopile" /\ last.exc = "none"
    /\ owts[last.t].pile_toe_written
    /\ ~IsNone(owts[last.t].substructure)

\* C3: assembly_tp_mp raises TypeError whenever transition_piece or monopile
\* is not built, assembly_full_structure whenever substructure or tower is
\* not; substructure and tp_skirt are populated only when transition_piece
\* and monopile are, full_structure only when tower and substructure are.
C3_StagePrecedence ==
    /\ (last.op = "assembly_tp_mp"
          /\ (IsNone(owts[last.t].transition_piece) \/ IsNone(owts[last.t].monopile)))
          => last.exc = "TypeError"
    /\ (last.op = "assembly_full_structure"
          /\ (IsNone(owts[last.t].substructure) \/ IsNone(owts[last.t].tower)))
          => last.exc = "TypeError"
    /\ \A t \in DOMAIN owts :
          /\ (~IsNone(owts[t].substructure) \/ ~IsNone(owts[t].tp_skirt))
                => ~IsNone(owts[t].transition_piece) /\ ~IsNone(owts[t].monopile)
          /\ ~IsNone(owts[t].full_structure)
                => ~IsNone(owts[t].tower) /\ ~IsNone(owts[t].substructure)

\* C3: assembly_full_structure has raised on a built substructure for want
\* of the tower, after an assembly_tp_mp that populated the substructure.
C3_TowerMissing ==
    /\ last.op = "assembly_full_structure" /\ last.exc = "TypeError"
    /\ ~IsNone(owts[last.t].substructure) /\ ~IsNone(owts[last.t].tp_skirt)
    /\ IsNone(owts[last.t].tower)


-----------------------------------------------------------------------------
(* Properties of the fleet's processing and of the anchor elevations.      *)

\* C4: process_structures returns without raising, and then every table of
\* the fleet is the concatenation, in turbine order, of the turbines'
\* tables and pile_toe maps each turbine to its pile toe.
C4_FleetProcessingCompletes ==
    last.op = "process_structures"
       => /\ last.exc = "none"
          /\ \A a \in READABLE \ {"pile_toe"} :
                /\ \A t \in DOMAIN owts : ~IsNone(owts[t][a])
                /\ fleet[a] = concat([t \in DOMAIN owts |-> owts[t][a]])
          /\ fleet.pile_toe = Dict([t \in DOMAIN owts |-> owts[t].pile_toe])

\* C4: the first process_structures has raised KeyError in the extend_dfs
\* of the first turbine, the fleet marked as processed and the second
\* turbine untouched.
C4_DescriptionKeyError ==
    /\ last.op = "process_structures" /\ last.exc = "KeyError"
    /\ fleet._init
    /\ ~IsNone(owts[1].tower) /\ IsNone(owts[1].substructure)
    /\ IsNone(owts[2].tower)

\* C5: tower_base is the supplied argument whenever one is supplied (0.0
\* included, whatever pile_head is) and else the tower's absolute_bottom;
\* pile_head is the supplied argument whenever one is supplied and else the
\* monopile's absolute_top.  Neither is assigned after construction.
C5_AnchorsDerivedOnlyIfNotSupplied ==
    \A t \in DOMAIN owts :
       /\ owts[t].tower_base =
             IF owts[t].args.tower_base = <<>>
             THEN owts[t].sub_assemblies.TW.absolute_bottom
             ELSE owts[t].args.tower_base[1]
       /\ owts[t].pile_head =
             IF owts[t].args.pile_head = <<>>
             THEN owts[t].sub_assemblies.MP.absolute_top
             ELSE owts[t].args.pile_head[1]

\* C5: a supplied tower_base replaced by the derived one because pile_head
\* was not supplied.
C5_SuppliedTowerBaseReplaced ==
    \E t \in DOMAIN owts :
       /\ owts[t].args.tower_base # <<>> /\ owts[t].args.pile_head = <<>>
       /\ owts[t].tower_base # owts[t].args.tower_base[1]
       /\ owts[t].tower_base = owts[t].sub_assemblies.TW.absolute_bottom

-----------------------------------------------------------------------------
(* Properties of the section tables.                                       *)

\* The raw rows of the monopile's structural sections.
MonopileSections(owt) ==
    SelectSeq(owt.mp_sub_assemblies.rows, LAMBDA r : "mp" \in r["index"].tokens)

\* C6: once the monopile table is built, pile_toe is pile_head minus the sum
\* of the monopile section heights (mm to m), rounded to 3 decimals: -19.0 m
\* for a pile head of -1.0 m and sections of 5000, 6000 and 7000 mm; and the
\* depth-to of the section at z = 0 is that pile toe.
C6_PileToe ==
    \A t \in DOMAIN owts :
       ~IsNone(owts[t].monopile) =>
          LET raw == MonopileSections(owts[t])
              heights == SumSeq([i \in DOMAIN raw |-> raw[i]["height"][1]])
          IN  /\ owts[t].pile_toe = Float(Round3(owts[t].pile_head - heights * 10))
              /\ (owts[t].pile_head = -10000 /\ heights = 18000)
                    => owts[t].pile_toe = Float(-190000)
              /\ \A i \in DOMAIN owts[t].monopile.rows, j \in DOMAIN raw :
                    (raw[j]["index"] = owts[t].monopile.rows[i]["index"]
                        /\ raw[j]["z"] = 0)
                    => owts[t].monopile.rows[i]["Depth to [mLAT]"]
                          = owts[t].pile_toe.val

\* C6: the monopile table built for a pile head of -1.0 m, with the pile
\* toe at -19.0 m, and a bottom section whose depth-to is the pile toe.
C6_ExamplePileToe ==
    \E t \in DOMAIN owts :
       /\ last.op = "process_structure" /\ last.t = t
       /\ ~IsNone(owts[t].monopile)
       /\ owts[t].pile_head = -10000
       /\ owts[t].pile_toe = Float(-190000)
       /\ \E i \in DOMAIN owts[t].monopile.rows :
             owts[t].monopile.rows[i]["Depth to [mLAT]"] = -190000

\* The attributes holding the section tables.
SECTION_TABLES == {"tower", "transition_piece", "monopile"}

SectionIndex(a) ==
    IF a = "tower" THEN "tw" ELSE IF a = "transition_piece" THEN "tp" ELSE "mp"

\* The z offsets of the raw rows are the accumulated heights: one section
\* sits at z = 0 and neighbouring rows meet.
ConsistentOffsets(raw) ==
    /\ \E i \in DOMAIN raw.rows : raw.rows[i]["z"] = 0
    /\ \A i \in 1..(Len(raw.rows) - 1) :
          \/ raw.rows[i]["z"] = raw.rows[i + 1]["z"] + raw.rows[i + 1]["height"][1]
          \/ raw.rows[i + 1]["z"] = raw.rows[i]["z"] + raw.rows[i]["height"][1]

\* Neighbouring rows of a section table share a boundary elevation.
Contiguous(df) ==
    \A i \in 1..(Len(df.rows) - 1) :
       \/ df.rows[i]["Depth to [mLAT]"] = df.rows[i + 1]["Depth from [mLAT]"]
       \/ df.rows[i + 1]["Depth to [mLAT]"] = df.rows[i]["Depth from [mLAT]"]

\* The lowest and the highest elevation of a section table.
Lowest(df) ==
    CHOOSE x \in {df.rows[i]["Depth to [mLAT]"] : i \in DOMAIN df.rows} :
        \A i \in DOMAIN df.rows : x <= df.rows[i]["Depth to [mLAT]"]

Highest(df) ==
    CHOOSE x \in {df.rows[i]["Depth from [mLAT]"] : i \in DOMAIN df.rows} :
        \A i \in DOMAIN df.rows : x >= df.rows[i]["Depth from [mLAT]"]

\* The stack is anchored: the tower's lowest elevation is the tower base,
\* the transition piece's highest one is the tower base, and the monopile
\* runs from the pile toe to the pile head (to 3 decimals).
Anchored(owt, a) ==
    CASE a = "tower" -> Lowest(owt[a]) = Round3(owt.tower_base)
      [] a = "transition_piece" -> Highest(owt[a]) = Round3(owt.tower_base)
      [] a = "monopile" ->
            /\ Lowest(owt[a]) = owt.pile_toe.val
            /\ Highest(owt[a]) = Round3(owt.pile_head)

\* C8, as the code has it: each depth-to is the anchor plus the row's own z
\* offset, so the section table is a contiguous stack anchored at the base
\* elevation (rounded to 3 decimals) when the z offsets of the input are
\* the accumulated section heights.
C8_ContiguousWhenOffsetsConsistent ==
    \A t \in DOMAIN owts, a \in SECTION_TABLES :
       (~IsNone(owts[t][a])
           /\ ConsistentOffsets(structure_rows(owts[t], SectionIndex(a))))
       => Contiguous(owts[t][a]) /\ Anchored(owts[t], a)

\* C8, as stated: every section table is a contiguous stack anchored at the
\* base elevation, whatever the z offsets of the input.
C8_ContiguousForEveryInput ==
    \A t \in DOMAIN owts, a \in SECTION_TABLES :
       ~IsNone(owts[t][a]) => Contiguous(owts[t][a]) /\ Anchored(owts[t], a)

\* C8: a monopile table of three sections built from consistent offsets
\* with a derived pile head of -2.0004 m, which the rounding moves.
C8_ConsistentStackBuilt ==
    \E t \in DOMAIN owts :
       /\ ~IsNone(owts[t].monopile) /\ ~IsNone(owts[t].transition_piece)
       /\ ConsistentOffsets(structure_rows(owts[t], "mp"))
       /\ ConsistentOffsets(structure_rows(owts[t], "tp"))
       /\ Len(owts[t].monopile.rows) = 3
       /\ Len(owts[t].transition_piece.rows) = MaxTPSections
       /\ owts[t].pile_head = -20004
       /\ Highest(owts[t].monopile) = -20000

-----------------------------------------------------------------------------
(* Properties of the assembled structure.                                  *)

\* The rows of the transition piece in a table.
TPRows(df) == SelectSeq(df.rows, LAMBDA r : "tp" \in r["index"].tokens)

\* C9: once assembly_tp_mp and assembly_full_structure have completed, the
\* lowest transition-piece row of the substructure ends at pile_head, the
\* skirt starts at pile_head, full_structure is the tower's rows followed by
\* the substructure's, and no row of the substructure lies above a row of
\* the tower; for any number of sections and either order of the rows.
C9_AssembledColumnContinuous ==
    \A t \in DOMAIN owts :
       (~IsNone(owts[t].tp_skirt) /\ ~IsNone(owts[t].full_structure)) =>
          /\ \E i \in DOMAIN TPRows(owts[t].substructure) :
                TPRows(owts[t].substructure)[i]["Depth to [mLAT]"] = owts[t].pile_head
          /\ \A i \in DOMAIN TPRows(owts[t].substructure) :
                TPRows(owts[t].substructure)[i]["Depth to [mLAT]"] >= owts[t].pile_head
          /\ \E i \in DOMAIN owts[t].tp_skirt.rows :
                owts[t].tp_skirt.rows[i]["Depth from [mLAT]"] = owts[t].pile_head
          /\ \A i \in DOMAIN owts[t].tp_skirt.rows :
                owts[t].tp_skirt.rows[i]["Depth from [mLAT]"] <= owts[t].pile_head
          /\ owts[t].full_structure.rows
                = owts[t].tower.rows \o owts[t].substructure.rows
          /\ \A i \in DOMAIN owts[t].tower.rows,
                j \in DOMAIN owts[t].substructure.rows :
                owts[t].tower.rows[i]["Depth to [mLAT]"]
                   >= owts[t].substructure.rows[j]["Depth from [mLAT]"]

\* C9: both assemblies have completed on tables whose rows run bottom
\* first and whose offsets are consistent, and the substructure holds a
\* transition-piece row that ends below the pile head.
C9_WrongRowCut ==
    \E t \in DOMAIN owts :
       /\ owts[t].args.order = "asc" /\ ~owts[t].args.zgap
       /\ ~IsNone(owts[t].tp_skirt) /\ ~IsNone(owts[t].full_structure)
       /\ \E i \in DOMAIN TPRows(owts[t].substructure) :
             TPRows(owts[t].substructure)[i]["Depth to [mLAT]"] < owts[t].pile_head

\* The transition piece's lowest elevation is the pile head.
Bolted(owt) ==
    /\ ~IsNone(owt.transition_piece)
    /\ Lowest(owt.transition_piece) = owt.pile_head

\* C10: for a bolted connection every transition-piece row of the
\* substructure is a row of the transition_piece table, cell for cell, for
\* any number of sections.
C10_BoltedKeepsSourceRows ==
    \A t \in DOMAIN owts :
       (~IsNone(owts[t].substructure) /\ Bolted(owts[t])) =>
          \A i \in DOMAIN TPRows(owts[t].substructure) :
             \E j \in DOMAIN owts[t].transition_piece.rows :
                TPRows(owts[t].substructure)[i] = owts[t].transition_piece.rows[j]

\* C10: a bolted connection of two sections in top-first order whose lower
\* row has lost its cone in the substructure.
C10_BoltedBoundaryRowChanged ==
    \E t \in DOMAIN owts :
       /\ ~IsNone(owts[t].substructure) /\ Bolted(owts[t])
       /\ owts[t].args.order = "desc" /\ ~owts[t].args.zgap
       /\ \E i \in DOMAIN TPRows(owts[t].substructure),
             j \in DOMAIN owts[t].transition_piece.rows :
             LET r == TPRows(owts[t].substructure)[i]
                 q == owts[t].transition_piece.rows[j]
             IN  /\ r["index"] = q["index"]
                 /\ r["Depth to [mLAT]"] = owts[t].pile_head
                 /\ q["Diameter to [m]"] # q["Diameter from [m]"]
                 /\ r["Diameter to [m]"] = r["Diameter from [m]"]


-----------------------------------------------------------------------------
(* Properties of the cut at the pile head.                                 *)

\* d is, to one unit of 1e-4 m, the linear interpolation at altitude between
\* the end diameters of the uncut section q, over q's own depth range.
InterpolatedInOriginalRange(d, q, altitude) ==
    LET span == q["Depth from [mLAT]"] - q["Depth to [mLAT]"]
        exact == (q["Diameter from [m]"] - q["Diameter to [m]"])
                    * (altitude - q["Depth to [mLAT]"])
    IN  Abs((d - q["Diameter to [m]"]) * span - exact) < span

\* d lies strictly between the end diameters of q.
StrictlyBetweenEnds(d, q) ==
    \/ q["Diameter to [m]"] < d /\ d < q["Diameter from [m]"]
    \/ q["Diameter from [m]"] < d /\ d < q["Diameter to [m]"]

\* The section q of the transition piece is cut strictly inside its range.
CutInside(q, altitude) ==
    q["Depth to [mLAT]"] < altitude /\ altitude < q["Depth from [mLAT]"]

\* C11: where the pile head cuts a section of the transition piece strictly
\* inside its range, the diameter written at the cut end (Diameter to on the
\* kept side, Diameter from on the skirt side) is the linear interpolation
\* over the section's original depth range, and for a conical section lies
\* strictly between the two original end diameters.
C11_CutDiameterInterpolated ==
    \A t \in DOMAIN owts :
       ~IsNone(owts[t].substructure) =>
          \A j \in DOMAIN owts[t].transition_piece.rows :
             LET q == owts[t].transition_piece.rows[j]
                 ph == owts[t].pile_head
                 conical == q["Diameter to [m]"] # q["Diameter from [m]"]
             IN  CutInside(q, ph) =>
                    /\ \A i \in DOMAIN TPRows(owts[t].substructure) :
                          LET r == TPRows(owts[t].substructure)[i]
                          IN  (r["index"] = q["index"] /\ r["Depth to [mLAT]"] = ph)
                              => /\ InterpolatedInOriginalRange(
                                        r["Diameter to [m]"], q, ph)
                                 /\ conical
                                       => StrictlyBetweenEnds(r["Diameter to [m]"], q)
                    /\ ~IsNone(owts[t].tp_skirt) =>
                          \A i \in DOMAIN owts[t].tp_skirt.rows :
                             LET r == owts[t].tp_skirt.rows[i]
                             IN  (r["index"] = q["index"]
                                     /\ r["Depth from [mLAT]"] = ph)
                                 => /\ InterpolatedInOriginalRange(
                                           r["Diameter from [m]"], q, ph)
                                    /\ conical
                                          => StrictlyBetweenEnds(
                                                r["Diameter from [m]"], q)

\* C11: a conical section cut strictly inside its range whose kept part has
\* the section's upper diameter at the cut and whose skirt part has the
\* section's lower diameter there.
C11_CutDiameterIsOtherEnd ==
    \E t \in DOMAIN owts :
       /\ ~IsNone(owts[t].substructure) /\ ~IsNone(owts[t].tp_skirt)
       /\ \E j \in DOMAIN owts[t].transition_piece.rows,
             i \in DOMAIN TPRows(owts[t].substructure),
             k \in DOMAIN owts[t].tp_skirt.rows :
             LET q == owts[t].transition_piece.rows[j]
                 r == TPRows(owts[t].substructure)[i]
                 b == owts[t].tp_skirt.rows[k]
             IN  /\ CutInside(q, owts[t].pile_head)
                 /\ q["Diameter to [m]"] # q["Diameter from [m]"]
                 /\ r["index"] = q["index"] /\ b["index"] = q["index"]
                 /\ r["Depth to [mLAT]"] = owts[t].pile_head
                 /\ b["Depth from [mLAT]"] = owts[t].pile_head
                 /\ r["Diameter to [m]"] = q["Diameter from [m]"]
                 /\ b["Diameter from [m]"] = q["Diameter to [m]"]


-----------------------------------------------------------------------------
(* Properties of the appurtenance tables.                                  *)

\* The raw table of a category and the elevation its z offsets are added
\* to: the tower base, the bottom of the transition piece's section table,
\* the pile toe.
CategoryTable(owt, sa) ==
    IF sa = "TW" THEN owt.tower_sub_assemblies
    ELSE IF sa = "TP" THEN owt.tp_sub_assemblies
    ELSE owt.mp_sub_assemblies

CategoryAnchor(owt, sa) ==
    IF sa = "TW" THEN owt.tower_base
    ELSE IF sa = "TP" THEN structure_anchor(owt, "tp", structure_rows(owt, "tp"))
    ELSE owt.pile_toe.val

\* The index labels of the rows of category sa with a null height (lumped)
\* or with a height (distributed).
CategoryRows(owt, sa, lumped) ==
    {r["index"] : r \in {q \in Range(CategoryTable(owt, sa).rows) :
                            sa \in q["index"].tokens /\ ((q["height"] = <<>>) = lumped)}}

\* df holds exactly the rows of labels, each at the anchor plus its z offset.
HoldsRows(owt, df, sa, lumped) ==
    /\ {r["index"] : r \in Range(df.rows)} = CategoryRows(owt, sa, lumped)
    /\ \A r \in Range(df.rows), q \in Range(CategoryTable(owt, sa).rows) :
          r["index"] = q["index"]
             => r["Z [mLAT]"] = CategoryAnchor(owt, sa) + q["z"] * 10

\* C12: each lumped mass table holds exactly the rows of its category with a
\* null height and each distributed mass table exactly those with a height,
\* with Z anchored at the tower base (TW), the bottom of the transition
\* piece's section table (TP) or the pile toe (MP).
C12_AppurtenancesSplitByHeight ==
    \A t \in DOMAIN owts :
       /\ ~IsNone(owts[t].tw_lumped_mass)
             => HoldsRows(owts[t], owts[t].tw_lumped_mass, "TW", TRUE)
       /\ ~IsNone(owts[t].tp_lumped_mass)
             => HoldsRows(owts[t], owts[t].tp_lumped_mass, "TP", TRUE)
       /\ ~IsNone(owts[t].mp_lumped_mass)
             => HoldsRows(owts[t], owts[t].mp_lumped_mass, "MP", TRUE)
       /\ ~IsNone(owts[t].tp_distributed_mass)
             => HoldsRows(owts[t], owts[t].tp_distributed_mass, "TP", FALSE)
       /\ ~IsNone(owts[t].mp_distributed_mass)
             => HoldsRows(owts[t], owts[t].mp_distributed_mass, "MP", FALSE)

\* C12: the tower's lumped mass table holds a row whose height is not null.
C12_DistributedRowInTowerLumped ==
    \E t \in DOMAIN owts :
       /\ ~IsNone(owts[t].tw_lumped_mass)
       /\ \E r \in Range(owts[t].tw_lumped_mass.rows),
             q \in Range(owts[t].tower_sub_assemblies.rows) :
             r["index"] = q["index"] /\ q["height"] # <<>>


-----------------------------------------------------------------------------
(* Direct calls of the mass tables' methods.                               *)

\* A turbine whose subassemblies hold no appurtenance: the structural
\* sections and the RNA only.
WithoutAppurtenances(owt) ==
    [owt EXCEPT
        !.tower_sub_assemblies =
            Filter(@, LAMBDA r : r["OD"] # <<>> \/ "RNA" \in r["index"].tokens),
        !.tp_sub_assemblies = Filter(@, LAMBDA r : r["OD"] # <<>>),
        !.mp_sub_assemblies = Filter(@, LAMBDA r : r["OD"] # <<>>)]

\* The idx arguments the two methods are called with.
CATEGORIES == {"TW", "TP", "MP", "grout"}

ProcessLumpedMasses(t, idx, add_descr) ==
    \E r \in {process_lumped_masses(enter(owts[t]), idx, add_descr)} :
        /\ owts' = [owts EXCEPT ![t] = r.self]
        /\ last' = [add_descr |-> add_descr]
                      @@ Outcome("process_lumped_masses", t, idx, r)
        /\ UNCHANGED fleet

ProcessDistributedLumpedMasses(t, idx) ==
    \E r \in {process_distributed_lumped_masses(enter(owts[t]), idx)} :
        OwtCall(t, "process_distributed_lumped_masses", idx, r)

InitMasses ==
    \E inp \in SmallInputs, bare \in BOOLEAN :
        InitWith(<<IF bare THEN WithoutAppurtenances(OWT_init(inp))
                   ELSE OWT_init(inp)>>)

NextMasses ==
    \/ \E t \in DOMAIN owts, option \in OPTIONS : ProcessStructure(t, option)
    \/ \E t \in DOMAIN owts, idx \in CATEGORIES, add_descr \in BOOLEAN :
          ProcessLumpedMasses(t, idx, add_descr)
    \/ \E t \in DOMAIN owts, idx \in CATEGORIES :
          ProcessDistributedLumpedMasses(t, idx)

SpecMasses == InitMasses /\ [][NextMasses]_vars

\* C13: on a processed structure, process_lumped_masses on TW, TP or MP
\* (with or without add_descr) and process_distributed_lumped_masses on TP,
\* MP or grout do not raise, also when no row matches, and return a table
\* with exactly the expected columns.
C13_MassTablesNeverRaise ==
    /\ (last.op = "process_lumped_masses" /\ last.arg \in {"TW", "TP", "MP"}
           /\ Completed(owts[last.t], "full"))
          => /\ last.exc = "none"
             /\ {"X [m]", "Y [m]", "Z [mLAT]", "Mass [t]"} \subseteq last.ret.cols
             /\ Cardinality(last.ret.cols) = IF last.add_descr THEN 5 ELSE 4
             /\ last.add_descr
                   => last.ret.cols \cap {"description", "Description"} # {}
    /\ (last.op = "process_distributed_lumped_masses"
           /\ last.arg \in {"TP", "MP", "grout"}
           /\ Completed(owts[last.t], "full"))
          => /\ last.exc = "none"
             /\ last.ret.cols = DISTRIBUTED_COLS

\* C13: process_lumped_masses with add_descr has raised KeyError on a
\* processed structure.
C13_DescriptionColumnMissing ==
    /\ last.op = "process_lumped_masses" /\ last.add_descr
    /\ last.arg = "TP" /\ last.exc = "KeyError"
    /\ Completed(owts[last.t], "full")

-----------------------------------------------------------------------------
(* transform_monopile_geometry                                             *)

\* The cutoff_point arguments: nan, above the pile table (40 m), inside its
\* rows (53 m and 60 m) and below all of them (70 m).
CUTOFFS == {<<>>, <<400000>>, <<530000>>, <<600000>>, <<700000>>}

TransformMonopileGeometry(t, cutoff_point) ==
    \E r \in {transform_monopile_geometry(enter(owts[t]), cutoff_point)} :
        OwtCall(t, "transform_monopile_geometry", cutoff_point, r)

InitPile ==
    \E inp \in Inputs, bare \in BOOLEAN :
        InitWith(<<IF bare THEN WithoutAppurtenances(OWT_init(inp))
                   ELSE OWT_init(inp)>>)

NextPile ==
    \E t \in DOMAIN owts, cutoff_point \in CUTOFFS :
        TransformMonopileGeometry(t, cutoff_point)

SpecPile == InitPile /\ [][NextPile]_vars

\* The cells of a row of the pile table, its label left out.
Cells(row) == [c \in PILE_COLS |-> row[c]]

\* The rows of the pile table a call without a cutoff returns whose depth-to
\* is greater than the cutoff.
BelowCutoff(owt, cutoff) ==
    SelectSeq(transform_monopile_geometry(owt, <<>>).ret.rows,
              LAMBDA r : r["Depth to [m]"] > cutoff)

TruncatedCall ==
    /\ last.op = "transform_monopile_geometry"
    /\ last.exc = "none"
    /\ last.arg # <<>>

\* C14: a call with a cutoff returns the rows of the un-truncated pile table
\* whose depth-to is greater than the cutoff, the first of them with its
\* depth-from replaced by the cutoff and nothing else changed; no row is
\* added (no row below the cutoff: no row returned), and the cutoff is not
\* shallower than the depth-from it replaces.
C14_CutoffRestrictsAndPins ==
    TruncatedCall =>
        \E kept \in {BelowCutoff(owts[last.t], last.arg[1])} :
            /\ Len(last.ret.rows) = Len(kept)
            /\ \A j \in DOMAIN kept :
                  Cells(last.ret.rows[j]) =
                      IF j = 1
                      THEN [Cells(kept[1]) EXCEPT !["Depth from [m]"] = last.arg[1]]
                      ELSE Cells(kept[j])
            /\ kept # <<>> => last.arg[1] >= kept[1]["Depth from [m]"]

\* C14: a call whose cutoff lies below every row returns one row, all of
\* its cells unset but the depth-from.
C14_RowAddedBelowPile ==
    /\ TruncatedCall
    /\ BelowCutoff(owts[last.t], last.arg[1]) = <<>>
    /\ Len(last.ret.rows) = 1
    /\ last.ret.rows[1]["Depth from [m]"] = last.arg[1]
    /\ last.ret.rows[1]["Depth to [m]"] = NaN

\* C14: a call whose cutoff lies above the first row below it moves the
\* depth-from of that row up.
C14_PinnedShallower ==
    /\ TruncatedCall
    /\ BelowCutoff(owts[last.t], last.arg[1]) # <<>>
    /\ last.ret.rows[1]["Depth from [m]"]
          < BelowCutoff(owts[last.t], last.arg[1])[1]["Depth from [m]"]

-----------------------------------------------------------------------------
(* Every operation of one turbine, on the tables it was built from         *)

InitAll == InitMasses

NextAll ==
    \/ NextMasses
    \/ \E t \in DOMAIN owts : AssemblyTpMp(t)
    \/ \E t \in DOMAIN owts : AssemblyFullStructure(t)
    \/ \E t \in DOMAIN owts, cutoff_point \in CUTOFFS :
          TransformMonopileGeometry(t, cutoff_point)

SpecAll == InitAll /\ [][NextAll]_vars

\* What the processor is built from.
RawTables(owt) ==
    [materials |-> owt.materials,
     tower_sub_assemblies |-> owt.tower_sub_assemblies,
     tp_sub_assemblies |-> owt.tp_sub_assemblies,
     mp_sub_assemblies |-> owt.mp_sub_assemblies]

\* What the two assembly methods read.
ConsumedTables(owt) ==
    [tower |-> owt.tower, transition_piece |-> owt.transition_piece,
     monopile |-> owt.monopile]

\* C15: no call of process_structure, process_lumped_masses,
\* process_distributed_lumped_masses, assembly_tp_mp,
\* assembly_full_structure or transform_monopile_geometry changes the raw
\* materials and subassembly tables, and the two assembly methods leave the
\* tower, transition_piece and monopile tables as they found them.
C15_InputsNotMutated ==
    [][\A t \in DOMAIN owts :
          /\ RawTables(owts'[t]) = RawTables(owts[t])
          /\ last'.op \in {"assembly_tp_mp", "assembly_full_structure"}
                => ConsumedTables(owts'[t]) = ConsumedTables(owts[t])]_vars

\* C15: assembly_tp_mp has cut the boundary section: the substructure holds
\* a row that is not in the transition piece, and the skirt another one.
C15_CutOnlyInAssembledTables ==
    \E t \in DOMAIN owts :
        /\ last.op = "assembly_tp_mp" /\ last.t = t /\ last.exc = "none"
        /\ \E r \in Range(owts[t].substructure.rows) :
              /\ "tp" \in r["index"].tokens
              /\ r \notin Range(owts[t].transition_piece.rows)
        /\ Range(owts[t].tp_skirt.rows) \ Range(owts[t].transition_piece.rows) # {}

-----------------------------------------------------------------------------
(* Read guards after the stages                                            *)

\* The stage that assigns owt.<name>.
PopulatingStage(name) ==
    IF name \in Range(ATTR_PROC) THEN "process_structure"
    ELSE IF name = "full_structure" THEN "assembly_full_structure"
    ELSE "assembly_tp_mp"

\* The stage that assigns owt.<name> has run to its end: the attribute is
\* there, and for the tables of assembly_tp_mp both of them are.
Populated(owt, name) ==
    /\ ~IsNone(owt[name])
    /\ PopulatingStage(name) = "assembly_tp_mp"
          => ~IsNone(owt.substructure) /\ ~IsNone(owt.tp_skirt)

\* C16: a read of a derived attribute whose populating stage has completed
\* emits no warning (substructure and tp_skirt after assembly_tp_mp, whether
\* or not assembly_full_structure has run), and a warning that is emitted
\* names the stage that populates the attribute read.
C16_NoWarningOncePopulated ==
    last.op = "getattr" =>
        /\ Populated(owts[last.t], last.arg) => last.warnings = {}
        /\ \A w \in last.warnings : w[2] = PopulatingStage(last.arg)

\* C16: substructure is read after process_structure and assembly_tp_mp
\* have built it and the skirt, and the read warns, naming
\* assembly_full_structure.
C16_SubstructureReadStillWarns ==
    /\ last.op = "getattr" /\ last.arg = "substructure"
    /\ Populated(owts[last.t], "substructure")
    /\ ~IsNone(last.ret)
    /\ last.warnings = {<<"substructure", "assembly_full_structure">>}

-----------------------------------------------------------------------------
(* Calls that fail                                                         *)

\* The completion flags of a turbine processor.
Flags(owt) == <<owt._init_proc, owt._init_spec_part, owt._init_spec_full>>

\* The call of a turbine's method that the step makes raised, or was a
\* process_structure with an option it does not know.
FailedOwtCall ==
    /\ last'.op \in {"process_structure", "assembly_tp_mp", "assembly_full_structure"}
    /\ \/ last'.exc # "none"
       \/ last'.op = "process_structure" /\ last'.arg = "other"

\* C17: a process_structure, assembly_tp_mp or assembly_full_structure that
\* raises, or a process_structure with an unrecognized option, assigns no
\* derived table and leaves the completion flags as they were; a fleet's
\* process_structures that raises leaves the fleet, its _init flag
\* included, and the turbines' tables and flags as they were.
C17_FailedCallChangesNothing ==
    [][/\ FailedOwtCall
             => /\ \A a \in READABLE : owts'[last'.t][a] = owts[last'.t][a]
                /\ Flags(owts'[last'.t]) = Flags(owts[last'.t])
       /\ (last'.op = "process_structures" /\ last'.exc # "none")
             => /\ fleet' = fleet
                /\ \A t \in DOMAIN owts :
                      /\ \A a \in READABLE : owts'[t][a] = owts[t][a]
                      /\ Flags(owts'[t]) = Flags(owts[t])]_vars

\* C17: assembly_tp_mp has raised TypeError on a turbine nothing was
\* processed on, and its flag is set: a read of substructure no longer
\* names assembly_tp_mp.
C17_FlagSetByFailedAssembly ==
    /\ last.op = "assembly_tp_mp" /\ last.exc = "TypeError"
    /\ IsNone(owts[last.t].substructure) /\ IsNone(owts[last.t].monopile)
    /\ owts[last.t]._init_spec_part
    /\ <<"substructure", "assembly_tp_mp">>
          \notin OWT_getattribute_warnings(owts[last.t], "substructure")

=============================================================================
